---- MODULE Spec2Model ----
(***************************************************************************)
(* The undo engine of stingy (src/src/database/sqlite_impl.rs): the model  *)
(* CRUD facade, the TEMP triggers that capture one reverting statement per *)
(* row write, the undo steps with their retention, and undo_last_step.     *)
(*                                                                         *)
(* An entity table is a set of rows; a row has a primary key `id` (the     *)
(* rowid) and two further fields under one UNIQUE constraint.  NULL (an    *)
(* absent id, an absent step) is written 0.                                *)
(*                                                                         *)
(* Spec is the handle with its calls in any order; MigrationSpec is        *)
(* perform_migrations called repeatedly on one connection; RunnerSpec is   *)
(* the binary (src/src/main.rs), one command per invocation, and           *)
(* ObservedRunnerSpec the same with an observer of the invocations that    *)
(* write nothing; SessionSpec is one session on one connection, with       *)
(* steps of any limit and repeated installs of the triggers.               *)
(***************************************************************************)
EXTENDS Integers, Sequences, FiniteSets, TLC

\* ---------------------------------------------------------------- bounds
MaxRowId == 2
MaxStepId == 3
MaxStatements == 2
MaxLog == 4
MaxMigrations == 4
MaxApplies == 3
MAX_UNDO_STEPS == 2

Tables == {"accounts"}
FieldNames == {"a"}
Selected == {0, 1}
StepNames == {"import", "tags"}

NULL == 0
RowIds == 1..MaxRowId
Rows == [id : RowIds, name : FieldNames, selected : Selected]
Models == [id : RowIds \cup {NULL}, name : FieldNames, selected : Selected]
NoRow == [id |-> NULL, name |-> "", selected |-> 0]

VARIABLES
    tables,           \* table name -> set of rows
    undo_steps,       \* set of [id, name]
    undo_statements,  \* sequence of [undo_step_id, statement], in rowid order
    step_seq,         \* the largest id undo_steps has ever held
    foreign_keys,     \* PRAGMA foreign_keys of the connection
    triggers,         \* the TEMP triggers of the connection, in creation order
    user_version,     \* PRAGMA user_version of the database file
    migrated,         \* the scripts whose effects the file holds, in order
    applies,          \* observer: the perform_migrations calls made so far
    run,              \* the invocation of the binary in progress, if any
    last,             \* the last call on the handle and what it returned
    track             \* observer: the run of steps being followed

vars == <<tables, undo_steps, undo_statements, step_seq, foreign_keys, triggers,
          user_version, migrated, applies, run, last, track>>

\* ------------------------------------------------------------- helpers
Max(S) == CHOOSE x \in S : \A y \in S : y <= x

StepIds(steps) == {s.id : s \in steps}

\* (SELECT MAX(id) FROM undo_steps): NULL on an empty table.
MaxStepIdOf(steps) == IF steps = {} THEN NULL ELSE Max(StepIds(steps))

\* quote(x) of an INTEGER and of a TEXT value, as the SQL literal it renders,
\* and the value a column of that affinity takes from the literal.
quoteInteger(n) == ToString(n)
quoteText(s) == "'" \o s \o "'"
EvalInteger(lit) == CHOOSE n \in 0..(MaxRowId + 1) : quoteInteger(n) = lit
EvalText(lit) == CHOOSE s \in FieldNames \cup {""} : quoteText(s) = lit

QuoteRow(row) ==
    [id |-> quoteInteger(row.id), name |-> quoteText(row.name),
     selected |-> quoteInteger(row.selected)]
EvalRow(img) ==
    [id |-> EvalInteger(img.id), name |-> EvalText(img.name),
     selected |-> EvalInteger(img.selected)]

NoImage == QuoteRow(NoRow)

\* The three statements the triggers assemble.  The UPDATE statement sets
\* every field and has no WHERE clause.
DeleteStatement(t, rowid) ==
    [kind |-> "DELETE", table |-> t, where |-> quoteInteger(rowid), image |-> NoImage]
UpdateStatement(t, old) ==
    [kind |-> "UPDATE", table |-> t, where |-> "", image |-> QuoteRow(old)]
InsertStatement(t, old) ==
    [kind |-> "INSERT", table |-> t, where |-> "", image |-> QuoteRow(old)]

\* Capture with the anchor taken from the oldest step instead of the newest.
Capture_MinStep(stmts, steps, stmt) ==
    Append(stmts, [undo_step_id |-> IF steps = {} THEN NULL
                                    ELSE -Max({-id : id \in StepIds(steps)}),
                   statement |-> stmt])

\* INSERT INTO undo_statements VALUES((SELECT MAX(id) FROM undo_steps), stmt)
Capture(stmts, steps, stmt) ==
    Append(stmts, [undo_step_id |-> MaxStepIdOf(steps), statement |-> stmt])

\* The triggers of the connection on `event` of table t fire, each running
\* its INSERT INTO undo_statements once for the row written.
RECURSIVE Fire(_, _, _, _, _, _)
Fire(trgs, t, event, stmts, steps, stmt) ==
    IF trgs = <<>> THEN stmts
    ELSE Fire(Tail(trgs), t, event,
              IF Head(trgs).table = t /\ Head(trgs).event = event
              THEN Capture(stmts, steps, stmt) ELSE stmts,
              steps, stmt)

SameFields(r, m) == r.name = m.name /\ r.selected = m.selected

\* A table whose only constraint is the primary key.
UniqueConflict_KeyOnly(rows, m) ==
    \E r \in rows : r.id = m.id

\* The UNIQUE constraint across the non-key fields, and the primary key.
UniqueConflict(rows, m) ==
    \E r \in rows : r.id = m.id \/ SameFields(r, m)

\* rowid SQLite assigns to an INSERT whose id is NULL.
NextRowId(rows) == IF rows = {} THEN 1 ELSE Max({r.id : r \in rows}) + 1

\* ------------------------------------------- row writes, with triggers
\* Each returns [ok, tables, statements, row]; a failed statement changes
\* nothing (statement atomicity) and its triggers capture nothing.
Failed(tbls, stmts) ==
    [ok |-> FALSE, tables |-> tbls, statements |-> stmts, row |-> NoRow]

\* INSERT INTO t(fields) VALUES (m), AFTER INSERT trigger.
SqlInsert(tbls, stmts, steps, t, m) ==
    LET rows == tbls[t]
        row == [m EXCEPT !.id = IF m.id = NULL THEN NextRowId(rows) ELSE m.id]
    IN  IF UniqueConflict(rows, row)
        THEN Failed(tbls, stmts)
        ELSE [ok |-> TRUE,
              tables |-> [tbls EXCEPT ![t] = rows \cup {row}],
              statements |-> Fire(triggers, t, "insert", stmts, steps,
                                 DeleteStatement(t, row.id)),
              row |-> row]

\* UPDATE t SET (fields) = (m) over the rows `targets` the WHERE clause
\* matches (all rows when there is none), AFTER UPDATE trigger.
SqlUpdate(tbls, stmts, steps, t, m, targets) ==
    LET rows == tbls[t]
        rest == rows \ targets
    IN  IF targets = {}
        THEN [ok |-> TRUE, tables |-> tbls, statements |-> stmts, row |-> NoRow]
        ELSE IF Cardinality(targets) > 1 \/ UniqueConflict(rest, m)
        THEN Failed(tbls, stmts)
        ELSE LET old == CHOOSE r \in targets : TRUE
             IN  [ok |-> TRUE,
                  tables |-> [tbls EXCEPT ![t] = rest \cup {m}],
                  statements |-> Fire(triggers, t, "update", stmts, steps,
                                      UpdateStatement(t, old)),
                  row |-> old]

\* DELETE FROM t WHERE key = id, BEFORE DELETE trigger.
SqlDelete(tbls, stmts, steps, t, id) ==
    LET rows == tbls[t]
        targets == {r \in rows : r.id = id}
    IN  IF targets = {}
        THEN [ok |-> TRUE, tables |-> tbls, statements |-> stmts, row |-> NoRow]
        ELSE LET old == CHOOSE r \in targets : TRUE
             IN  [ok |-> TRUE,
                  tables |-> [tbls EXCEPT ![t] = rows \ {old}],
                  statements |-> Fire(triggers, t, "delete", stmts, steps,
                                      InsertStatement(t, old)),
                  row |-> old]

\* conn.execute(statement) of a captured statement.
Execute(tbls, stmts, steps, st) ==
    IF st.kind = "DELETE"
    THEN SqlDelete(tbls, stmts, steps, st.table, EvalInteger(st.where))
    ELSE IF st.kind = "UPDATE"
    THEN SqlUpdate(tbls, stmts, steps, st.table, EvalRow(st.image), tbls[st.table])
    ELSE SqlInsert(tbls, stmts, steps, st.table, EvalRow(st.image))

\* An id column that takes the largest id present plus one, so that the id
\* of a deleted newest step is given out again.
NextStepId_Rowid(seq, steps) == MaxStepIdOf(steps) + 1

\* The schema of the undo tables (002-undo.sql).  undo_steps.id is
\* monotonically increasing; undo_statements.undo_step_id may be NULL and
\* references undo_steps(id) ON DELETE CASCADE, a foreign key action, which
\* SQLite takes only while PRAGMA foreign_keys is ON.
NextStepId(seq, steps) == seq + 1
CascadeDelete(stmts, ids, fk) ==
    IF fk THEN SelectSeq(stmts, LAMBDA s : s.undo_step_id \notin ids) ELSE stmts

\* DELETE FROM undo_steps over the rows `doomed`.
DeleteSteps(steps, stmts, doomed, fk) ==
    [steps |-> steps \ doomed,
     statements |-> CascadeDelete(stmts, StepIds(doomed), fk)]

\* ------------------------------------------------------------ the calls
Result(op, ret, row) == [op |-> op, ret |-> ret, row |-> row]

\* The observer follows one run "S1; writes; S2; writes; ...; undo; undo; ...":
\* base is the content before S1, n the steps created, k the undos made,
\* wrote whether the newest step has a row write, fresh whether no step
\* existed before S1.  A store open after "S1; writes; S2" is followed up to
\* the next undo (phases reopened, pruned_undo).  Any other call ends the run.
TrackOff ==
    [phase |-> "off", base |-> [t \in Tables |-> {}], n |-> 0, k |-> 0,
     wrote |-> FALSE, fresh |-> FALSE]
TrackWrite(written) ==
    IF track.phase = "build"
    THEN [track EXCEPT !.wrote = @ \/ written]
    ELSE IF track.phase = "reinstalled" THEN track
    ELSE TrackOff
TrackBegin ==
    IF track.phase = "build" /\ track.wrote
    THEN [track EXCEPT !.n = @ + 1, !.wrote = FALSE]
    ELSE [phase |-> "build", base |-> tables, n |-> 1, k |-> 0,
          wrote |-> FALSE, fresh |-> undo_steps = {}]
TrackUndo ==
    IF track.phase = "build" /\ track.wrote
    THEN [track EXCEPT !.phase = "undo", !.k = 1]
    ELSE IF track.phase = "reopened"
    THEN [track EXCEPT !.phase = "pruned_undo", !.k = 1]
    ELSE IF track.phase = "undo" /\ last.ret = "Ok" /\ track.k <= track.n
    THEN [track EXCEPT !.k = @ + 1]
    ELSE TrackOff

\* The run "S1; writes; S2; no write; open": the observer waits for the undo.
TrackNew ==
    IF track.phase = "build" /\ track.n = 2 /\ ~track.wrote
    THEN [track EXCEPT !.phase = "reopened"]
    ELSE TrackOff

\* Observer of the invocations that write nothing, used when watch is set:
\* the steps and statements the file held when the first of them started
\* (on), and whether one of them has begun its step since (ro).
NoKept ==
    [watch |-> FALSE, on |-> FALSE, ro |-> FALSE, steps |-> {}, statements |-> <<>>]

\* No invocation of the binary is running.
NoRun ==
    [pc |-> "exit", cmd |-> "", begun |-> 0, max |-> 0, has_transactions |-> FALSE,
     code |-> "", kept |-> NoKept]

\* Contents a table can hold: the primary key and the UNIQUE constraint.
ValidRows ==
    {rows \in SUBSET Rows :
        \A r1, r2 \in rows : (r1.id = r2.id \/ SameFields(r1, r2)) => r1 = r2}

\* conn.execute("CREATE TEMP TRIGGER name ..."): the statement has no IF NOT
\* EXISTS, so it fails when the connection already has a trigger of the name.
CreateTempTrigger(trgs, trg) ==
    IF \E i \in DOMAIN trgs : trgs[i].name = trg.name
    THEN [ok |-> FALSE, triggers |-> trgs]
    ELSE [ok |-> TRUE, triggers |-> Append(trgs, trg)]

\* impl_undo_operations!(conn, model, table): the three triggers of a table,
\* each execute followed by `?`.
TriggerEvents == <<"insert", "update", "delete">>
RECURSIVE impl_undo_operations(_, _, _)
impl_undo_operations(trgs, t, i) ==
    IF i > Len(TriggerEvents)
    THEN [ok |-> TRUE, triggers |-> trgs]
    ELSE LET c == CreateTempTrigger(trgs, [name |-> t \o "_undo_" \o TriggerEvents[i],
                                           table |-> t, event |-> TriggerEvents[i]])
         IN  IF c.ok THEN impl_undo_operations(c.triggers, t, i + 1) ELSE c

\* The triggers of a connection on which initialize_undo has run once.
InstalledTriggers == impl_undo_operations(<<>>, "accounts", 1).triggers

MIGRATIONS == <<"", "001-initial-schema.sql", "002-undo.sql">>

\* The store as SQLiteStingyDatabase::new leaves it when it has just applied
\* 002-undo.sql to a file that already held rows: no step, no statement.
Init ==
    /\ tables \in [Tables -> ValidRows]
    /\ undo_steps = {}
    /\ undo_statements = <<>>
    /\ step_seq = 0
    /\ foreign_keys = TRUE
    /\ triggers = InstalledTriggers
    /\ user_version = Len(MIGRATIONS) - 1
    /\ migrated = Tail(MIGRATIONS)
    /\ applies = <<>>
    /\ run = NoRun
    /\ last = Result("new", "Ok", NoRow)
    /\ track = TrackOff

CanWrite == Len(undo_statements) < MaxStatements

\* The lookup with the key among the compared fields.
LookupDuplicate_AllFields(rows, m) == {x \in rows : x = m}

\* SELECT fields FROM t WHERE (non-key fields) IS (non-key values of m)
LookupDuplicate(rows, m) == {x \in rows : SameFields(x, m)}

update(t, m) ==
    /\ CanWrite
    /\ LET r == SqlUpdate(tables, undo_statements, undo_steps, t, m,
                          {x \in tables[t] : m.id # NULL /\ x.id = m.id})
       IN  /\ tables' = r.tables
           /\ undo_statements' = r.statements
           /\ last' = Result("update", IF r.ok THEN "Ok" ELSE "Err", NoRow)
           /\ track' = TrackWrite(r.ok /\ r.row # NoRow)
    /\ UNCHANGED <<undo_steps, step_seq, foreign_keys, triggers, user_version,
                   migrated, applies>>

insert_or_get(t, m) ==
    /\ CanWrite
    /\ m.id = NULL => NextRowId(tables[t]) <= MaxRowId
    /\ LET r == SqlInsert(tables, undo_statements, undo_steps, t, m)
           dup == LookupDuplicate(tables[t], m)
       IN  /\ tables' = r.tables
           /\ undo_statements' = r.statements
           /\ last' = IF r.ok THEN Result("insert_or_get", "New", r.row)
                      ELSE IF dup = {} THEN Result("insert_or_get", "Err", NoRow)
                      ELSE Result("insert_or_get", "Existing", CHOOSE x \in dup : TRUE)
           /\ track' = TrackWrite(r.ok)
    /\ UNCHANGED <<undo_steps, step_seq, foreign_keys, triggers, user_version,
                   migrated, applies>>

delete(t, m) ==
    /\ CanWrite
    /\ LET r == SqlDelete(tables, undo_statements, undo_steps, t,
                          IF m.id = NULL THEN -1 ELSE m.id)
       IN  /\ tables' = r.tables
           /\ undo_statements' = r.statements
           /\ last' = Result("delete", IF r.row = NoRow THEN "0" ELSE "1", NoRow)
           /\ track' = TrackWrite(r.row # NoRow)
    /\ UNCHANGED <<undo_steps, step_seq, foreign_keys, triggers, user_version,
                   migrated, applies>>

\* The truncation with the comparison turned around.
StepsToTruncate_Flipped(steps, max_undo_steps) ==
    {s \in steps : s.id >= MaxStepIdOf(steps) - max_undo_steps}

\* The truncation with < for <=, which keeps one step too many.
StepsToTruncate_OffByOne(steps, max_undo_steps) ==
    {s \in steps : s.id < MaxStepIdOf(steps) - max_undo_steps}

\* The rows of DELETE FROM undo_steps WHERE id <= (SELECT MAX(id) FROM
\* undo_steps) - max_undo_steps.
StepsToTruncate(steps, max_undo_steps) ==
    {s \in steps : s.id <= MaxStepIdOf(steps) - max_undo_steps}

begin_undo_step(name, max_undo_steps) ==
    /\ step_seq < MaxStepId
    /\ LET id == NextStepId(step_seq, undo_steps)
           inserted == undo_steps \cup {[id |-> id, name |-> name]}
           r == DeleteSteps(inserted, undo_statements,
                            StepsToTruncate(inserted, max_undo_steps), foreign_keys)
       IN  /\ undo_steps' = r.steps
           /\ undo_statements' = r.statements
           /\ step_seq' = id
           /\ last' = Result("begin_undo_step", "Ok", NoRow)
           /\ track' = TrackBegin
    /\ UNCHANGED <<tables, foreign_keys, triggers, user_version, migrated, applies>>

\* for row in &rows { self.conn.execute(&statement)?; }
RECURSIVE Replay(_, _, _, _, _)
Replay(rows, i, tbls, stmts, steps) ==
    IF i > Len(rows)
    THEN [ok |-> TRUE, tables |-> tbls, statements |-> stmts, row |-> NoRow]
    ELSE LET r == Execute(tbls, stmts, steps, rows[i].statement)
         IN  IF r.ok
             THEN Replay(rows, i + 1, r.tables, r.statements, steps)
             ELSE r

\* The selection that falls back to the newest step that has statements.
LastStepStatements_NewestNonEmpty(stmts, steps) ==
    LET anchored == {s.id : s \in {x \in steps :
                        \E i \in DOMAIN stmts : stmts[i].undo_step_id = x.id}}
    IN  SelectSeq(stmts, LAMBDA s : anchored # {} /\ s.undo_step_id = Max(anchored))

\* A guard released only where the function runs to its end.
SuspendForeignKeysDrop_AtEndOnly(exit) == exit = "Ok"

\* Drop for SuspendForeignKeys: PRAGMA foreign_keys = ON, on whichever path
\* undo_last_step is left (`exit` is what it returns).
SuspendForeignKeysDrop(exit) == TRUE

\* The step row deleted before the loop instead of after it.
StepsDuringReplay_DeletedFirst(steps) ==
    {s \in steps : s.id # MaxStepIdOf(steps)}

\* undo_steps while the statements are executed: the DELETE of the step row
\* comes after the loop, so the step being undone is still the newest.
StepsDuringReplay(steps) == steps

LastStepStatements(stmts, steps) ==
    SelectSeq(stmts, LAMBDA s : steps # {} /\ s.undo_step_id = MaxStepIdOf(steps))

undo_last_step ==
    LET suspended == FALSE                       \* SuspendForeignKeys::new
        rows == LastStepStatements(undo_statements, undo_steps)
        r == Replay(rows, 1, tables, undo_statements, StepsDuringReplay(undo_steps))
        d == DeleteSteps(undo_steps, r.statements,
                         {s \in undo_steps : s.id = rows[1].undo_step_id}, suspended)
    IN  /\ Len(undo_statements) + Len(rows) <= MaxLog
        /\ IF rows = <<>>
           THEN /\ last' = Result("undo_last_step", "NothingToUndo", NoRow)
                /\ UNCHANGED <<tables, undo_steps, undo_statements>>
           ELSE IF ~r.ok
           THEN /\ last' = Result("undo_last_step", "Err", NoRow)
                /\ tables' = r.tables
                /\ undo_statements' = r.statements
                /\ UNCHANGED undo_steps
           ELSE /\ last' = Result("undo_last_step", "Ok", NoRow)
                /\ tables' = r.tables
                /\ undo_steps' = d.steps
                /\ undo_statements' = d.statements
        /\ foreign_keys' = SuspendForeignKeysDrop(last'.ret)
        /\ track' = TrackUndo
        /\ UNCHANGED <<step_seq, triggers, user_version, migrated, applies>>

\* The name of the step with the least id.
LastStepName_Oldest(steps) ==
    (CHOOSE s \in steps : \A x \in steps : s.id <= x.id).name

\* SELECT name FROM undo_steps ORDER BY id DESC LIMIT 1
LastStepName(steps) ==
    (CHOOSE s \in steps : \A x \in steps : x.id <= s.id).name

\* The value returned is in the name field of the result's row.
get_last_undo_step ==
    /\ last' = IF undo_steps = {}
               THEN Result("get_last_undo_step", "NothingToUndo", NoRow)
               ELSE Result("get_last_undo_step", "Ok",
                           [NoRow EXCEPT !.name = LastStepName(undo_steps)])
    /\ track' = TrackOff
    /\ UNCHANGED <<tables, undo_steps, undo_statements, step_seq, foreign_keys,
                   triggers, user_version, migrated, applies>>

\* DELETE FROM undo_steps WHERE id NOT IN (SELECT undo_step_id FROM
\* undo_statements): NOT IN is never true once the subquery yields a NULL.
EmptySteps(steps, stmts) ==
    LET anchors == {stmts[i].undo_step_id : i \in DOMAIN stmts}
    IN  IF NULL \in anchors THEN {}
        ELSE {s \in steps : s.id \notin anchors}

\* The two DELETEs are committed one by one before the triggers are created.
initialize_undo(steps, stmts, trgs, from_scratch, fk) ==
    LET wiped == IF from_scratch
                 THEN DeleteSteps(steps, stmts, steps, fk)
                 ELSE [steps |-> steps, statements |-> stmts]
        pruned == DeleteSteps(wiped.steps, wiped.statements,
                              EmptySteps(wiped.steps, wiped.statements), fk)
        installed == impl_undo_operations(trgs, "accounts", 1)
    IN  [steps |-> pruned.steps, statements |-> pruned.statements,
         ok |-> installed.ok, triggers |-> installed.triggers]

\* The migration lists a store is opened with: the list of this build, and
\* the list of a later build, which has one more script.
Builds == {MIGRATIONS, Append(MIGRATIONS, "003-later.sql")}

\* The while loop of perform_migrations from `version` on.  Each script runs
\* in a transaction with the version it sets; a script that fails is rolled
\* back to `db`, the file as it was at BEGIN TRANSACTION, and ends the loop;
\* `executed` is the file with the statements of the script that ran.
\* Sequences are 1-based, so migrations[version] of the code is entry
\* version + 1.
\* let mut version: usize = prev_version as usize + 1, taken one too low.
FirstUnapplied_Again(prev_version) == prev_version

\* let mut version: usize = prev_version as usize + 1
FirstUnapplied(prev_version) == prev_version + 1

\* The rollback that keeps what the failed script had executed.
Rollback_KeepsExecuted(snapshot, executed) == executed

\* ROLLBACK: the file as it was at BEGIN TRANSACTION; nothing the failed
\* script executed stays.
Rollback(snapshot, executed) == snapshot

RECURSIVE MigrateFrom(_, _, _, _)
MigrateFrom(version, migrations, fails, db) ==
    IF version >= Len(migrations)
    THEN [ok |-> TRUE, failed |-> "", db |-> db]
    ELSE LET migration_name == migrations[version + 1]
             executed == [db EXCEPT !.migrated = Append(@, migration_name)]
         IN  IF migration_name \in fails
             THEN [ok |-> FALSE, failed |-> migration_name, db |-> Rollback(db, executed)]
             ELSE MigrateFrom(version + 1, migrations, fails,
                              [executed EXCEPT !.user_version = version])

\* perform_migrations on a file at prev_version; `fails` are the scripts that
\* fail when executed.  ran is the value of Ok(..): whether a migration ran.
perform_migrations(prev_version, db_migrated, migrations, fails) ==
    LET r == MigrateFrom(FirstUnapplied(prev_version), migrations, fails,
                         [user_version |-> prev_version, migrated |-> db_migrated])
    IN  [ok |-> r.ok, failed |-> r.failed,
         ran |-> prev_version < Len(migrations) - 1,
         version |-> r.db.user_version, migrated |-> r.db.migrated]

\* SQLiteStingyDatabase::new on the existing file: a new connection.  When a
\* script fails the error is returned before initialize_undo.
new(migrations, fails) ==
    LET m == perform_migrations(user_version, migrated, migrations, fails)
        u == initialize_undo(undo_steps, undo_statements, <<>>, m.ran, TRUE)
    IN  /\ foreign_keys' = TRUE
        /\ triggers' = IF m.ok THEN u.triggers ELSE triggers
        /\ user_version' = m.version
        /\ migrated' = m.migrated
        /\ IF m.ok
           THEN /\ undo_steps' = u.steps
                /\ undo_statements' = u.statements
                /\ last' = Result("new", "Ok", NoRow)
           ELSE /\ UNCHANGED <<undo_steps, undo_statements>>
                /\ last' = Result("new", "Err", NoRow)
        /\ track' = IF m.ok /\ ~m.ran THEN TrackNew ELSE TrackOff
        /\ UNCHANGED <<tables, step_seq, applies>>

\* The lists perform_migrations is called with on one connection: the
\* sentinel and the first n scripts, named by their version.
Scripts == [i \in 1..(MaxMigrations + 1) |-> IF i = 1 THEN "" ELSE ToString(i - 1)]
MigrationLists == {SubSeq(Scripts, 1, n) : n \in 1..Len(Scripts)}

\* A file no migration has touched.
MigrationInit ==
    /\ tables = [t \in Tables |-> {}]
    /\ undo_steps = {}
    /\ undo_statements = <<>>
    /\ step_seq = 0
    /\ foreign_keys = FALSE
    /\ triggers = <<>>
    /\ user_version = 0
    /\ migrated = <<>>
    /\ applies = <<>>
    /\ run = NoRun
    /\ last = Result("open", "Ok", NoRow)
    /\ track = TrackOff

\* One call perform_migrations(&conn, &migrations).
apply(migrations, fails) ==
    /\ Len(applies) < MaxApplies
    /\ LET m == perform_migrations(user_version, migrated, migrations, fails)
           ret == IF ~m.ok THEN "Err" ELSE IF m.ran THEN "true" ELSE "false"
       IN  /\ user_version' = m.version
           /\ migrated' = m.migrated
           /\ applies' = Append(applies, [len |-> Len(migrations), ret |-> ret,
                                          failed |-> m.failed])
           /\ last' = Result("perform_migrations", ret, NoRow)
    /\ UNCHANGED <<tables, undo_steps, undo_statements, step_seq, foreign_keys,
                   triggers, run, track>>

MigrationNext ==
    \E migrations \in MigrationLists, fails \in SUBSET {Scripts[i] : i \in 2..Len(Scripts)} :
        apply(migrations, fails)

MigrationSpec == MigrationInit /\ [][MigrationNext]_vars

\* ------------------------------------------------- the binary (main.rs)
Commands == {"Import", "Accounts", "Tags", "Query", "Undo", "Info", "Reset"}

can_run_on_empty_database(cmd) == cmd \in {"Import", "Reset", "Info"}

\* An undo step for every command, the undo command included.
BeginsStep_Always(cmd) == TRUE

\* match &cli.command { Some(Commands::Undo { .. }) => {} _ => { ... } }
BeginsStep(cmd) == cmd # "Undo"

\* fn main: the exit status for what stingy_main returned (an Err here is
\* never a broken pipe nor a clap error).
main(result) == IF result = "Ok" THEN "SUCCESS" ELSE "FAILURE"

\* The process of the invocation has ended with status `code`.
Exited(code) == [NoRun EXCEPT !.code = code, !.kept = run.kept]

\* The observer at a store open: it starts when every step has a statement
\* and there are between one and MAX_UNDO_STEPS steps.
Keep ==
    IF run.kept.on THEN run.kept
    ELSE IF /\ run.kept.watch
            /\ undo_steps # {} /\ Cardinality(undo_steps) <= MAX_UNDO_STEPS
            /\ \A s \in undo_steps :
                  \E i \in DOMAIN undo_statements :
                      undo_statements[i].undo_step_id = s.id
    THEN [watch |-> TRUE, on |-> TRUE, ro |-> FALSE, steps |-> undo_steps,
          statements |-> undo_statements]
    ELSE run.kept

\* The invocation has called a facade write: the observer stops.
Wrote(r) == [r EXCEPT !.kept = [NoKept EXCEPT !.watch = run.kept.watch]]

\* A facade call whose error the command returns with `?`.
Propagate == Wrote(IF last'.ret = "Err" THEN Exited(main("Err")) ELSE run)

handle_vars == <<tables, undo_steps, undo_statements, step_seq, foreign_keys,
                 triggers, user_version, migrated, applies, last, track>>

\* fs::remove_file(&self.path): the next open creates the file anew.
reset ==
    /\ tables' = [t \in Tables |-> {}]
    /\ undo_steps' = {}
    /\ undo_statements' = <<>>
    /\ step_seq' = 0
    /\ user_version' = 0
    /\ migrated' = <<>>
    /\ last' = Result("reset", "Ok", NoRow)
    /\ track' = TrackOff
    /\ UNCHANGED <<foreign_keys, triggers, applies>>

\* stingy_main up to Stingy::parse(): the store is opened, the transactions
\* are counted and the command line is parsed; on a command line that names
\* no command ("invalid") clap ends the process.
stingy_main(cmd) ==
    /\ run.pc = "exit"
    /\ new(MIGRATIONS, {})
    /\ run' = IF cmd = "invalid" THEN Exited("USAGE")
              ELSE [pc |-> "begin", cmd |-> cmd, begun |-> 0, max |-> 0,
                    has_transactions |-> \E t \in Tables : tables[t] # {},
                    code |-> "", kept |-> Keep]

\* commands::undo::begin_undo_step(&db, &invocation.join(" "))
begin_step_of_invocation ==
    /\ run.pc = "begin"
    /\ IF BeginsStep(run.cmd)
       THEN /\ \E name \in StepNames : begin_undo_step(name, MAX_UNDO_STEPS)
            /\ run' = [run EXCEPT !.pc = "dispatch", !.begun = @ + 1,
                                  !.max = MAX_UNDO_STEPS, !.kept.ro = run.kept.on]
       ELSE /\ run' = [run EXCEPT !.pc = "dispatch"]
            /\ UNCHANGED handle_vars

Dispatched(cmd) ==
    /\ run.pc = "dispatch"
    /\ run.cmd = cmd
    /\ run.has_transactions \/ can_run_on_empty_database(cmd)

\* _ if !has_transactions && !can_run_on_empty_database => println!(TIP)
dispatch_tip ==
    /\ run.pc = "dispatch"
    /\ ~run.has_transactions /\ ~can_run_on_empty_database(run.cmd)
    /\ run' = Exited(main("Ok"))
    /\ UNCHANGED handle_vars

\* The row writes of the commands: import inserts, accounts select/unselect
\* update, tags delete-rule deletes.
command_import ==
    /\ Dispatched("Import")
    /\ \E t \in Tables, m \in Models : insert_or_get(t, m)
    /\ run' = Propagate
command_accounts ==
    /\ Dispatched("Accounts")
    /\ \E t \in Tables, m \in Models : update(t, m)
    /\ run' = Propagate
command_tags ==
    /\ Dispatched("Tags")
    /\ \E t \in Tables, m \in Models : delete(t, m)
    /\ run' = Propagate

\* command_undo: let undo_step = db.get_last_undo_step()?, then the
\* confirmation; confirmed, action()? is db.undo_last_step().
command_undo ==
    /\ Dispatched("Undo")
    /\ get_last_undo_step
    /\ run' = IF last'.ret = "Ok" THEN [run EXCEPT !.pc = "confirm"]
              ELSE Exited(main(last'.ret))
confirmed_undo ==
    /\ run.pc = "confirm" /\ run.cmd = "Undo"
    /\ undo_last_step
    /\ run' = Wrote(Exited(main(last'.ret)))

\* with_confirmation(&prompt, || command_reset(db)), confirmed.
command_reset ==
    /\ Dispatched("Reset")
    /\ reset
    /\ run' = Wrote(Exited(main("Ok")))

\* The command returns: nothing more to write, or the operator declined.
command_returns ==
    /\ run.pc = "confirm" \/ \E cmd \in Commands : Dispatched(cmd)
    /\ run' = Exited(main("Ok"))
    /\ UNCHANGED handle_vars

RunnerNext ==
    \/ \E cmd \in Commands \cup {"invalid"} : stingy_main(cmd)
    \/ begin_step_of_invocation
    \/ dispatch_tip
    \/ command_import
    \/ command_accounts
    \/ command_tags
    \/ command_undo
    \/ confirmed_undo
    \/ command_reset
    \/ command_returns

RunnerSpec == Init /\ [][RunnerNext]_vars

\* The binary with the observer of the invocations that write nothing.
ObservedInit ==
    /\ tables \in [Tables -> ValidRows]
    /\ undo_steps = {}
    /\ undo_statements = <<>>
    /\ step_seq = 0
    /\ foreign_keys = TRUE
    /\ triggers = InstalledTriggers
    /\ user_version = Len(MIGRATIONS) - 1
    /\ migrated = Tail(MIGRATIONS)
    /\ applies = <<>>
    /\ run = [NoRun EXCEPT !.kept.watch = TRUE]
    /\ last = Result("new", "Ok", NoRow)
    /\ track = TrackOff

ObservedRunnerSpec == ObservedInit /\ [][RunnerNext]_vars

\* The calls a holder of the handle (db: Box<dyn StingyDatabase>) can make,
\* in any order, outside an invocation of the binary.
db_update ==
    /\ \E t \in Tables, m \in Models : update(t, m)
    /\ UNCHANGED run
db_insert_or_get ==
    /\ \E t \in Tables, m \in Models : insert_or_get(t, m)
    /\ UNCHANGED run
db_delete ==
    /\ \E t \in Tables, m \in Models : delete(t, m)
    /\ UNCHANGED run
db_begin_undo_step ==
    /\ \E name \in StepNames : begin_undo_step(name, MAX_UNDO_STEPS)
    /\ UNCHANGED run
db_undo_last_step ==
    /\ undo_last_step
    /\ UNCHANGED run
db_get_last_undo_step ==
    /\ get_last_undo_step
    /\ UNCHANGED run
open_stingy_database ==
    /\ \E migrations \in Builds, fails \in SUBSET {"003-later.sql"} :
          new(migrations, fails)
    /\ UNCHANGED run

\* initialize_undo(&conn, false) once more on the connection of the handle.
install_again ==
    /\ LET u == initialize_undo(undo_steps, undo_statements, triggers, FALSE,
                                foreign_keys)
       IN  /\ undo_steps' = u.steps
           /\ undo_statements' = u.statements
           /\ triggers' = u.triggers
           /\ last' = Result("initialize_undo", IF u.ok THEN "Ok" ELSE "Err", NoRow)
    /\ track' = [TrackOff EXCEPT !.phase = "reinstalled"]
    /\ UNCHANGED <<tables, step_seq, foreign_keys, user_version, migrated, applies, run>>

\* db.begin_undo_step(name, max_undo_steps) with any limit of at least one.
db_begin_undo_step_any ==
    /\ \E name \in StepNames, max_undo_steps \in 1..MAX_UNDO_STEPS :
          begin_undo_step(name, max_undo_steps)
    /\ UNCHANGED run

\* One session on one handle: steps of any limit, row writes, undos and
\* installs of the hooks.
SessionNext ==
    \/ db_update
    \/ db_insert_or_get
    \/ db_delete
    \/ db_begin_undo_step_any
    \/ db_undo_last_step
    \/ install_again

SessionSpec == Init /\ [][SessionNext]_vars

Next ==
    \/ db_update
    \/ db_insert_or_get
    \/ db_delete
    \/ db_begin_undo_step
    \/ db_undo_last_step
    \/ db_get_last_undo_step
    \/ open_stingy_database

Spec == Init /\ [][Next]_vars

\* ------------------------------------------------------------ the claims
LastAnchor == MaxStepIdOf(undo_steps)
StatementsOf(stmts, id) == SelectSeq(stmts, LAMBDA s : s.undo_step_id = id)
UndoOk == undo_last_step /\ last'.ret = "Ok"
UndoErr == undo_last_step /\ last'.ret = "Err"

\* C1: begin_step; W1..Wn; a successful undo_last_step leaves every table
\* as it was immediately before begin_step.
C1_RoundTrip ==
    (track.phase = "undo" /\ track.n = 1 /\ track.k = 1 /\ last.ret = "Ok")
        => tables = track.base

\* C2: after n <= max_steps steps, each with a write, made on a store without
\* steps, the first n undos succeed, the n-th restores the content before S1
\* and the (n+1)-th fails with NothingToUndo.
C2_StackDiscipline ==
    (track.phase = "undo" /\ track.fresh /\ track.n <= MAX_UNDO_STEPS)
        => /\ track.k <= track.n => last.ret = "Ok"
           /\ track.k = track.n => tables = track.base
           /\ track.k = track.n + 1 => last.ret = "NothingToUndo"

\* C3: a successful undo_last_step leaves neither the consumed step nor any
\* statement anchored to it.
C3_UndoConsumesStep ==
    [][UndoOk =>
          /\ LastAnchor \notin StepIds(undo_steps')
          /\ StatementsOf(undo_statements', LastAnchor) = <<>>]_vars

\* C4: an undo_last_step that fails while replaying keeps the step and
\* exactly the statements that were anchored to it.
C4_FailedUndoKeepsBookkeeping ==
    [][UndoErr =>
          /\ undo_steps' = undo_steps
          /\ StatementsOf(undo_statements', LastAnchor)
                = StatementsOf(undo_statements, LastAnchor)]_vars

\* C5: while a step exists, a facade call that writes a row appends exactly
\* one statement, anchored to the step with the maximum id: DELETE by the new
\* rowid for an insert, UPDATE with the whole old row for an update, INSERT
\* with the whole old row for a delete; steps and earlier statements stay.
Appended(kind, t) ==
    /\ Len(undo_statements') = Len(undo_statements) + 1
    /\ SubSeq(undo_statements', 1, Len(undo_statements)) = undo_statements
    /\ undo_statements'[Len(undo_statements')].undo_step_id = LastAnchor
    /\ undo_statements'[Len(undo_statements')].statement.kind = kind
    /\ undo_statements'[Len(undo_statements')].statement.table = t
    /\ undo_steps' = undo_steps
AppendedStatement == undo_statements'[Len(undo_statements')].statement
C5_OneCapturePerWrite ==
    [][(undo_steps # {} /\ last'.op \in {"insert_or_get", "update", "delete"}) =>
        \A t \in Tables, m \in Models :
          /\ (last'.ret = "New" /\ insert_or_get(t, m)) =>
                /\ Appended("DELETE", t)
                /\ {AppendedStatement.where}
                      = {quoteInteger(r.id) : r \in tables'[t] \ tables[t]}
          /\ (last'.op = "update" /\ last'.ret = "Ok"
                /\ (\E r \in tables[t] : r.id = m.id) /\ update(t, m)) =>
                /\ Appended("UPDATE", t)
                /\ {EvalRow(AppendedStatement.image)}
                      = {r \in tables[t] : r.id = m.id}
          /\ (last'.ret = "1" /\ delete(t, m)) =>
                /\ Appended("INSERT", t)
                /\ {EvalRow(AppendedStatement.image)}
                      = {r \in tables[t] : r.id = m.id}]_vars
C5_Witness ==
    /\ Cardinality(undo_steps) = 2
    /\ last.op = "update" /\ last.ret = "Ok"
    /\ Len(undo_statements) > 0
    /\ undo_statements[Len(undo_statements)].undo_step_id = LastAnchor
    /\ undo_statements[Len(undo_statements)].statement.kind = "UPDATE"

\* C6: insert_or_get of a record whose non-key fields no row has returns New
\* and captures one statement; insert_or_get of the same record again returns
\* Existing, changes no row and captures nothing.
C6_UpsertIdempotence ==
    [][\A t \in Tables, m \in Models :
        (last'.op = "insert_or_get" /\ insert_or_get(t, m)) =>
          /\ (m.id = NULL /\ \A r \in tables[t] : ~SameFields(r, m)) =>
                /\ last'.ret = "New"
                /\ Len(undo_statements') = Len(undo_statements) + 1
          /\ (last.op = "insert_or_get" /\ last.ret = "New" /\ SameFields(last.row, m)
                /\ last.row \in tables[t]) =>
                /\ last'.ret = "Existing"
                /\ last'.row = last.row
                /\ tables' = tables
                /\ undo_statements' = undo_statements
                /\ undo_steps' = undo_steps]_vars
C6_Witness ==
    /\ last.op = "insert_or_get" /\ last.ret = "Existing"
    /\ undo_steps # {}
    /\ Len(StatementsOf(undo_statements, LastAnchor)) = 1

\* C7 as stated: an insert_or_get whose INSERT a uniqueness constraint rejects
\* (primary key or UNIQUE fields) returns Existing, never an error.
Rejected(t, m) ==
    \E r \in tables[t] : (m.id # NULL /\ r.id = m.id) \/ SameFields(r, m)
C8_StepCountBounded == Cardinality(undo_steps) <= MAX_UNDO_STEPS
C8_Witness ==
    /\ last.op = "begin_undo_step"
    /\ Cardinality(undo_steps) = MAX_UNDO_STEPS
    /\ step_seq > MAX_UNDO_STEPS

\* C9: after max_steps + 1 steps, each with a write, exactly max_steps
\* consecutive undos succeed and the next one fails.
C9_Retention ==
    (track.phase = "undo" /\ track.n = MAX_UNDO_STEPS + 1)
        => /\ track.k <= MAX_UNDO_STEPS => last.ret = "Ok"
           /\ track.k = MAX_UNDO_STEPS + 1 => last.ret # "Ok"

\* C10: begin_step deletes earlier steps only when the count with the new
\* step exceeds max_steps, and then leaves exactly max_steps.
C10_TruncateByCount ==
    [][\A name \in StepNames : begin_undo_step(name, MAX_UNDO_STEPS) =>
          IF Cardinality(undo_steps) + 1 > MAX_UNDO_STEPS
          THEN Cardinality(undo_steps') = MAX_UNDO_STEPS
          ELSE undo_steps \subseteq undo_steps']_vars

\* C11: undo_last_step fails with NothingToUndo when no step exists and when
\* the step with the maximum id has no statement, even if older steps have
\* some; tables, steps and statements are then left unchanged.
C11_NothingToUndo ==
    [][(last'.op = "undo_last_step"
          /\ (undo_steps = {} \/ StatementsOf(undo_statements, LastAnchor) = <<>>)
          /\ undo_last_step) =>
              /\ last'.ret = "NothingToUndo"
              /\ UNCHANGED <<tables, undo_steps, undo_statements>>]_vars
C11_Witness ==
    /\ last.op = "undo_last_step" /\ last.ret = "NothingToUndo"
    /\ Cardinality(undo_steps) >= 2
    /\ StatementsOf(undo_statements, LastAnchor) = <<>>
    /\ \E s \in undo_steps : StatementsOf(undo_statements, s.id) # <<>>

\* C12: when a step with a write is followed by a begin_step and no write,
\* the next store open removes the empty step, and the undo_last_step that
\* follows succeeds and restores the content before the earlier step.
C12_EmptyStepPruning ==
    /\ track.phase = "reopened" => step_seq \notin StepIds(undo_steps)
    /\ track.phase = "pruned_undo" => (last.ret = "Ok" /\ tables = track.base)

\* C13: immediately after begin_step returns, no step other than the one
\* just created has zero statements.
C13_NoEmptyStepAfterBegin ==
    [][(last'.op = "begin_undo_step"
          /\ \E name \in StepNames : begin_undo_step(name, MAX_UNDO_STEPS)) =>
              \A s \in undo_steps' :
                  s.id # step_seq' => StatementsOf(undo_statements', s.id) # <<>>]_vars

C15_OpenPrunesExactlyEmptySteps ==
    [][(last'.op = "new" /\ last'.ret = "Ok" /\ user_version' = user_version) =>
          /\ undo_steps' = {s \in undo_steps :
                              StatementsOf(undo_statements, s.id) # <<>>}
          /\ \A s \in undo_steps' : StatementsOf(undo_statements', s.id)
                                      = StatementsOf(undo_statements, s.id)
          /\ tables' = tables]_vars

\* The versions of `migrations` not yet applied whose script is in `fails`.
FailingUnapplied(migrations, fails) ==
    {v \in (user_version + 1)..(Len(migrations) - 1) : migrations[v + 1] \in fails}

\* C16: when an unapplied script fails, apply returns an error naming it, the
\* persisted version is that of the last script committed, the effects of the
\* scripts before it are present, none of the failed script is, and no later
\* script is attempted.
C16_FailedMigrationRollsBack ==
    [][Len(applies') = Len(applies) + 1 =>
          LET migrations == SubSeq(Scripts, 1, applies'[Len(applies')].len)
          IN  \A fails \in SUBSET {Scripts[i] : i \in 2..Len(Scripts)} :
                (FailingUnapplied(migrations, fails) # {} /\ apply(migrations, fails)) =>
                    LET f == CHOOSE v \in FailingUnapplied(migrations, fails) :
                                 \A w \in FailingUnapplied(migrations, fails) : v <= w
                    IN  /\ last'.ret = "Err"
                        /\ applies'[Len(applies')].failed = migrations[f + 1]
                        /\ user_version' = f - 1
                        /\ migrated' = migrated \o SubSeq(migrations, user_version + 2, f)]_vars
C16_Witness ==
    /\ last.op = "perform_migrations" /\ last.ret = "Err"
    /\ applies[Len(applies)].failed = "3"
    /\ user_version = 2 /\ migrated = <<"1", "2">>
    /\ Len(applies) = 1 /\ applies[1].len = 5

\* C17: over any sequence of apply calls, with longer lists and after
\* failures, each script is committed at most once and in ascending version
\* order; an apply made after a fully successful one with the same list
\* executes no script, leaves the version unchanged and returns false.
VersionOf(name) ==
    IF \E v \in 1..MaxMigrations : Scripts[v + 1] = name
    THEN CHOOSE v \in 1..MaxMigrations : Scripts[v + 1] = name
    ELSE 0
C17_MigrationsApplyOnce ==
    [][Len(applies') = Len(applies) + 1 =>
          LET call == applies'[Len(applies')]
          IN  /\ \A i \in 1..(Len(migrated') - 1) :
                    VersionOf(migrated'[i]) < VersionOf(migrated'[i + 1])
              /\ (/\ applies # <<>>
                  /\ applies[Len(applies)].ret # "Err"
                  /\ applies[Len(applies)].len = call.len) =>
                    /\ migrated' = migrated
                    /\ user_version' = user_version
                    /\ call.ret = "false"]_vars
C17_Witness ==
    /\ Len(applies) = 3
    /\ applies[1].ret = "Err" /\ applies[2].ret = "true" /\ applies[3].ret = "false"
    /\ applies[1].len < applies[2].len /\ applies[3].len = applies[2].len
    /\ user_version = MaxMigrations

\* C18: foreign key enforcement is on again whenever undo_last_step has
\* returned (Ok, NothingToUndo or an error of the replay), so it is on in
\* every state between calls.
C18_ForeignKeysRestored == foreign_keys = TRUE
C18_Witness ==
    /\ last.op = "undo_last_step" /\ last.ret = "Err"
    /\ foreign_keys = TRUE

\* C19: get_last_undo_step returns the name given to the step with the
\* maximum id, fails with NothingToUndo exactly when no step exists, and
\* changes nothing; the step it names is the one a directly following
\* undo_last_step consumes.
C19_PeekNamesUndoTarget ==
    [][/\ (last'.op = "get_last_undo_step" /\ get_last_undo_step) =>
            /\ UNCHANGED <<tables, undo_steps, undo_statements, step_seq,
                           foreign_keys, user_version, migrated>>
            /\ (last'.ret = "NothingToUndo") <=> (undo_steps = {})
            /\ undo_steps # {} =>
                  /\ last'.ret = "Ok"
                  /\ [id |-> LastAnchor, name |-> last'.row.name] \in undo_steps
       /\ (last.op = "get_last_undo_step" /\ last.ret = "Ok" /\ UndoOk) =>
            undo_steps \ undo_steps' = {[id |-> LastAnchor, name |-> last.row.name]}]_vars
C19_Witness ==
    /\ last.op = "get_last_undo_step" /\ last.ret = "Ok"
    /\ \E s1, s2 \in undo_steps : s1.id < s2.id /\ s1.name # s2.name
    /\ StatementsOf(undo_statements, LastAnchor) # <<>>

C21_NothingToUndoIsNotFailure ==
    [][(run.cmd = "Undo" /\ run.pc # "exit" /\ run'.pc = "exit") =>
          /\ last'.ret = "NothingToUndo" => run'.code # "FAILURE"
          /\ run'.code = "FAILURE" =>
                (last'.op = "undo_last_step" /\ last'.ret = "Err")]_vars

\* C22: installing the hooks a second time on the open handle succeeds and
\* leaves the hooks as they were, and every facade call that writes a row
\* afterwards captures exactly one statement.
RowWritten ==
    \/ last'.op = "insert_or_get" /\ last'.ret = "New"
    \/ last'.op = "update" /\ last'.ret = "Ok" /\ tables' # tables
    \/ last'.op = "delete" /\ last'.ret = "1"
WrittenIds(t) ==
    LET rows == LastStepStatements(undo_statements, undo_steps)
    IN  {IF rows[i].statement.kind = "DELETE"
         THEN EvalInteger(rows[i].statement.where)
         ELSE EvalInteger(rows[i].statement.image.id) :
            i \in {j \in DOMAIN rows : rows[j].statement.table = t}}
RowsById(rows, id) == {r \in rows : r.id = id}

\* C23: undo_last_step changes only rows written since the most recent
\* begin_step: a row the newest step did not write, whether an earlier step
\* wrote it or a write made while no step existed, is the same after the
\* undo, and an id it did not write has no row after the undo if it had none.
C23_UndoRevertsOnlyLastStep ==
    [][(last'.op = "undo_last_step" /\ undo_last_step) =>
          \A t \in Tables : \A id \in RowIds \ WrittenIds(t) :
              RowsById(tables'[t], id) = RowsById(tables[t], id)]_vars

\* The newest step consists of updates of distinct rows of table t, made
\* since its begin_step, and t holds a row that none of them wrote.
UpdatesOnly(t) ==
    LET rows == LastStepStatements(undo_statements, undo_steps)
    IN  /\ track.phase = "build" /\ rows # <<>>
        /\ \A i \in DOMAIN rows :
              rows[i].statement.kind = "UPDATE" /\ rows[i].statement.table = t
        /\ \A i, j \in DOMAIN rows :
              rows[i].statement.image.id = rows[j].statement.image.id => i = j
        /\ \E r \in tables[t] : r.id \notin WrittenIds(t)

\* C24: one undo_last_step fully reverts a step that updated distinct rows
\* of a table holding other rows: it succeeds, each updated row is back at
\* its whole image from before the update, and each other row is unchanged.
C24_UpdateStepReverted ==
    [][\A t \in Tables :
        (last'.op = "undo_last_step" /\ UpdatesOnly(t) /\ undo_last_step) =>
            LET rows == LastStepStatements(undo_statements, undo_steps)
            IN  /\ last'.ret = "Ok"
                /\ \A i \in DOMAIN rows : EvalRow(rows[i].statement.image) \in tables'[t]
                /\ \A r \in tables[t] : r.id \notin WrittenIds(t) => r \in tables'[t]]_vars

\* C25: undo_last_step executes the statements of the step with the maximum
\* id, all of them and no other, earliest captured first, and doing so
\* reverses the writes of the step: the tables are as they were at its
\* begin_step.  Stated for the steps made of inserts and deletes, whose
\* statements address one row by its key, so that only the order decides.
KeyedOnly ==
    \A i \in DOMAIN undo_statements :
        undo_statements[i].undo_step_id = LastAnchor
            => undo_statements[i].statement.kind # "UPDATE"
C25_ForwardReplayReverses ==
    [][(last'.op = "undo_last_step" /\ track.phase = "build" /\ track.n = 1
          /\ track.wrote /\ KeyedOnly /\ undo_last_step) =>
            LET rows == StatementsOf(undo_statements, LastAnchor)
                r == Replay(rows, 1, tables, undo_statements, undo_steps)
            IN  /\ r.ok /\ last'.ret = "Ok"
                /\ tables' = r.tables
                /\ tables' = track.base]_vars

\* C26: when begin_step deletes steps for retention (max_steps >= 1), the
\* deleted steps have smaller ids than every surviving step, no statement of
\* a deleted step is left, the statements of the surviving steps are as they
\* were, and the step just created survives.
C26_RetentionDeletesOldest ==
    [][last'.op = "begin_undo_step" =>
        \A name \in StepNames, max_undo_steps \in 1..MAX_UNDO_STEPS :
          begin_undo_step(name, max_undo_steps) =>
            LET created == [id |-> step_seq', name |-> name]
                deleted == (undo_steps \cup {created}) \ undo_steps'
            IN  /\ created \in undo_steps'
                /\ undo_steps' \subseteq undo_steps \cup {created}
                /\ \A d \in deleted, s \in undo_steps' : d.id < s.id
                /\ \A d \in deleted : StatementsOf(undo_statements', d.id) = <<>>
                /\ \A s \in undo_steps' :
                      StatementsOf(undo_statements', s.id)
                          = StatementsOf(undo_statements, s.id)]_vars
C26_Witness ==
    /\ last.op = "begin_undo_step"
    /\ track.phase = "build" /\ track.n = 3
    /\ StepIds(undo_steps) = {2, 3}
    /\ Len(undo_statements) = 1 /\ undo_statements[1].undo_step_id = 2

\* C27: a successful undo_last_step removes the step with the maximum id and
\* no other, creates none, and leaves every other step with its id, name and
\* statements: what the triggers capture during the replay is anchored to no
\* surviving step.
C27_UndoKeepsOtherSteps ==
    [][(last'.op = "undo_last_step" /\ last'.ret = "Ok" /\ undo_last_step) =>
          /\ undo_steps' = {s \in undo_steps : s.id # LastAnchor}
          /\ Cardinality(undo_steps') = Cardinality(undo_steps) - 1
          /\ \A s \in undo_steps' :
                StatementsOf(undo_statements', s.id)
                    = StatementsOf(undo_statements, s.id)]_vars
C27_Witness ==
    /\ last.op = "undo_last_step" /\ last.ret = "Ok"
    /\ \E s \in undo_steps : StatementsOf(undo_statements, s.id) # <<>>
    /\ Len(StatementsOf(undo_statements, step_seq)) = 2
    /\ step_seq \notin StepIds(undo_steps)

\* C28: every statement is anchored to a step that exists: none to a missing,
\* deleted or NULL step.
C28_AnchorsExist ==
    \A i \in DOMAIN undo_statements :
        undo_statements[i].undo_step_id \in StepIds(undo_steps)

\* C29: when begin_step has returned, the step it created has no statement
\* and its id is greater than the id of every other step, whatever writes,
\* undos, prunings and opens came before; a step created after an undo holds
\* none of the statements of the undone step.
C29_NewStepIsFreshAndNewest ==
    last.op = "begin_undo_step" =>
        /\ step_seq \in StepIds(undo_steps)
        /\ \A s \in undo_steps : s.id <= step_seq
        /\ StatementsOf(undo_statements, step_seq) = <<>>
C29_Witness ==
    /\ last.op = "begin_undo_step"
    /\ step_seq >= 2
    /\ step_seq - 1 \notin StepIds(undo_steps)
    /\ StatementsOf(undo_statements, step_seq - 1) # <<>>

\* C30: invocations that write nothing (store open, begin_step, no facade
\* write) do not reduce the history: when every step had a statement and
\* there were at most max_steps of them, the store open that follows any
\* number of such invocations finds the same steps with the same statements.
C30_ReadOnlyKeepsHistory ==
    [][(run.kept.on /\ run.kept.ro /\ run.pc = "exit" /\ run'.pc = "begin") =>
          /\ undo_steps' = run.kept.steps
          /\ undo_statements' = run.kept.statements]_vars

====
